---- MODULE Spec2Model ----
(***************************************************************************)
(* Model of office365_service/sharepoint_service.py: the retry executor    *)
(* handle_sharepoint_errors.wrapper around one decorated operation of a    *)
(* SharepointService session, together with the session's login and       *)
(* device-code login.  The decorated function is a collaborator: each      *)
(* invocation either returns or raises one of the failures below; trace   *)
(* records what the executor did, in order.  Of the client context the     *)
(* model keeps whether request state of a failed request is left on it.    *)
(***************************************************************************)
EXTENDS Integers, Sequences, FiniteSets, TLC

\* ---------------------------------------------------------------- bounds
\* Largest max_retries a decorated operation is called with.
MaxRetries == 3

\* ------------------------------------------------------ program constants
\* delay_seconds default of handle_sharepoint_errors.
DelaySeconds == 3
\* Seconds per attempt slept on a 429.
RateLimitUnit == 60
\* Attempts of the authentication call inside login.
LoginAttempts == 3
\* Seconds slept between two attempts of login.
LoginDelay == 3

\* ------------------------------------------------------------- exceptions
\* HTTP status codes a ClientRequestException can carry in the model.
Statuses == {429, 401, 403, 503, 504, 400, 404, 500}

MsgAuthCookies == "An error occurred while retrieving auth cookies"
MsgTimeout == "Read timed out"
MsgOther == "unexpected"
MsgRefresh == "device login failed"
\* Messages of the errors that are not ClientRequestException.
Messages == {MsgAuthCookies, MsgTimeout, MsgOther}

\* The value None of last_exception.
NoneExc == [cls |-> "None", status |-> 0, msg |-> "", at |-> 0 - 1]

\* A ClientRequestException with e.response.status_code = s, raised at attempt a.
ClientRequestException(s, a) ==
    [cls |-> "ClientRequestException", status |-> s, msg |-> "", at |-> a]

\* Any other Exception with str(e) = m, raised at attempt a.
OtherException(m, a) == [cls |-> "Exception", status |-> 0, msg |-> m, at |-> a]

\* What `raise None` raises.
TypeErrorExc == [cls |-> "TypeError", status |-> 0, msg |-> "", at |-> 0 - 1]

\* A timeout taken for an expired token as well.
MentionsAuthCookiesOrTimeout(e) == e.msg \in {MsgAuthCookies, MsgTimeout}

\* "auth cookies" in str(e).lower()
MentionsAuthCookies(e) == e.msg = MsgAuthCookies

\* `not (self.username and self.password)` is false: both are truthy.
Truthy(x) == x \notin {"None", ""}

\* ----------------------------------------------------------------- state
VARIABLES
    username,        \* self.username ("None" until login is called)
    password,        \* self.password
    using_device,    \* self.using_device
    client_id,       \* self.client_id
    authority,       \* self.authority
    scopes,          \* self.scopes (a sequence; <<>> is falsy)
    pc,              \* "idle", "attempt", "login", "done"
    max_retries,     \* policy of the executor call in progress
    delay_seconds,
    attempt,         \* loop variable of the wrapper
    last_exception,  \* last_exception of the wrapper
    caught,          \* e of the except clause while login runs
    outcome,         \* how the executor call ended
    trace,           \* what the executor call did so far, in order
    loginAttempt,    \* loop variable of login
    loginSleeps,     \* seconds the login call in progress has slept
    loginCaller,     \* "top" or "wrapper"
    loginResult,     \* return value of the last finished login
    loginLog,        \* what the login call did, in order: "ok", "fail", "sleep"
    ctxPending,      \* self.ctx holds request state left by a failed request
    opArg,           \* "path" or "handle": how the operation names its object
    handleOnCtx,     \* the context of the handle argument is self.ctx
    handlePending,   \* request state left on the handle's former context
    \* ---- one call of baixar_arquivo (SpecDownload)
    dlPc,            \* "idle", "resolve", "transfer", "done"
    arquivo_sp,      \* "str" or "File": what the caller passed
    max_tentativas,  \* the download's own attempt budget
    dlMaxRetries,    \* max_retries of the wrapper around baixar_arquivo
    dlAttempt,       \* loop variable of that wrapper
    tentativa,       \* loop variable of baixar_arquivo
    tamanho_remoto,  \* file_to_download.length
    dlLast,          \* last_exception of that wrapper
    dlOutcome,       \* how the call ended
    fileExists,      \* a file is at caminho_download
    fileSize,        \* its size in bytes
    touched,         \* this call opened caminho_download for writing
    transfers,       \* transfers of the file content so far in this call
    mismatches,      \* those whose local size differed from tamanho_remoto
    \* ---- listar_arquivos(path) calling obter_pasta (SpecNested)
    nPc,             \* "idle", "inner", "own", "outerCatch", "done"
    nMaxRetries,     \* max_retries of both wrappers (the decorator's default)
    outerAttempt,    \* loop variable of the wrapper of listar_arquivos
    innerAttempt,    \* loop variable of the wrapper of obter_pasta
    outerLast,       \* last_exception of the outer wrapper
    innerLast,       \* last_exception of the inner wrapper
    nPending,        \* the exception on its way to the outer wrapper
    nOutcome,        \* how the top-level call ended
    innerCalls,      \* executions of obter_pasta's remote call in this call
    innerSeen,       \* the outcomes those executions had
    nLogins,         \* runs of login in this call
    \* ---- folders and files of the site (SpecFolders)
    tree,            \* the folders on the server: paths below the site root
    files,           \* the files on the server: folder path followed by name
    fsPc,            \* "idle", "run", "parts", "done"
    fsOp,            \* "none", "obter_pasta", "obter_arquivo", "criar_pasta"
    fsPath,          \* caminho_pasta / caminho_arquivo / pasta_pai
    nome_pasta,      \* criar_pasta: the name as given, "/" included
    fsMaxRetries,    \* max_retries of the wrapper of the operation
    fsAttempt,       \* its loop variable
    fsLast,          \* its last_exception
    path_parts,      \* criar_pasta: the parts still to be walked
    current_folder,  \* criar_pasta: the folder reached so far
    created,         \* criar_pasta: the folders this call added, in order
    fsOutcome,       \* how the operation ended
    prevCall         \* the criar_pasta call completed just before, if any

session == <<username, password, using_device, client_id, authority, scopes>>
exec == <<max_retries, delay_seconds, attempt, last_exception, caught, outcome, trace>>
loginv == <<loginAttempt, loginSleeps, loginCaller, loginResult, loginLog>>
ctxv == <<ctxPending, opArg, handleOnCtx, handlePending>>
mainv == <<session, pc, exec, loginv, ctxv>>
dlv == <<dlPc, arquivo_sp, max_tentativas, dlMaxRetries, dlAttempt, tentativa,
         tamanho_remoto, dlLast, dlOutcome, fileExists, fileSize, touched,
         transfers, mismatches>>
nestv == <<nPc, nMaxRetries, outerAttempt, innerAttempt, outerLast, innerLast,
           nPending, nOutcome, innerCalls, innerSeen, nLogins>>
fsv == <<tree, files, fsPc, fsOp, fsPath, nome_pasta, fsMaxRetries, fsAttempt, fsLast,
         path_parts, current_folder, created, fsOutcome, prevCall>>
others == <<dlv, nestv, fsv>>
notDl == <<mainv, nestv, fsv>>
notNest == <<mainv, dlv, fsv>>
notFs == <<mainv, dlv, nestv>>

\* How an operation on folders and files ended: not yet, returning None,
\* returning the Folder / File at a path, or raising.
FsNoOutcome == [kind |-> "none", some |-> FALSE, path |-> <<>>, exc |-> NoneExc]
FsReturnedNone == [kind |-> "returned", some |-> FALSE, path |-> <<>>, exc |-> NoneExc]
FsReturned(p) == [kind |-> "returned", some |-> TRUE, path |-> p, exc |-> NoneExc]
FsRaised(e) == [kind |-> "raised", some |-> FALSE, path |-> <<>>, exc |-> e]

\* No criar_pasta call precedes.
NoCall == [pasta_pai |-> <<>>, nome_pasta |-> <<>>, result |-> FsNoOutcome, created |-> <<>>]
vars == <<mainv, others>>

\* ------------------------------------------------------- client context
\* The remote calls of the operation run on self.ctx: the operation got a
\* path, or a Folder/File handle whose context is still self.ctx.
RunsOnSelf == opArg = "path" \/ handleOnCtx

\* self.ctx.clear() of the wrapper, then the state of the context the remote
\* calls of this attempt run on: self.ctx is clean, a former context keeps
\* what a failed request left on it.
StartsStale == ~RunsOnSelf /\ handlePending

\* ---------------------------------------------------------------- events
EvInvoke(a, e) ==
    [ev |-> "invoke", at |-> a, exc |-> e, secs |-> 0, ok |-> e = NoneExc,
     stale |-> StartsStale]
EvSleep(a, s) ==
    [ev |-> "sleep", at |-> a, exc |-> NoneExc, secs |-> s, ok |-> TRUE, stale |-> FALSE]
EvLogin(a, b) ==
    [ev |-> "login", at |-> a, exc |-> NoneExc, secs |-> 0, ok |-> b, stale |-> FALSE]
EvRefresh(a, b) ==
    [ev |-> "refresh", at |-> a, exc |-> NoneExc, secs |-> 0, ok |-> b, stale |-> FALSE]

NoOutcome == [kind |-> "none", exc |-> NoneExc, result |-> 0 - 1]
Returned(a) == [kind |-> "returned", exc |-> NoneExc, result |-> a]
Raised(e) == [kind |-> "raised", exc |-> e, result |-> 0 - 1]


\* ------------------------------------------------------------ input sets
Usernames == {"user"}
Passwords == {"", "pw"}
ClientIds == {"cid"}
Authorities == {"login.example/tenant"}
ScopeLists == {<<>>, <<"scope">>}

\* ------------------------------------------------- the wrapper's decisions
\* range(max_retries + 1): one iteration too many.
LoopRangeOffByOne(mr) == 0 .. mr

\* range(max_retries)
LoopRange(mr) == 0 .. (mr - 1)

\* The 429 branch missing: a 429 falls through to the other branches.
IsRateLimitedNever(s) == FALSE

\* e.response.status_code == 429
IsRateLimited(s) == s = 429

\* wait_time = 60: the attempt index forgotten.
RateLimitWaitFlat(a) == RateLimitUnit

\* wait_time = 60 * (attempt + 1)
RateLimitWait(a) == RateLimitUnit * (a + 1)

\* A 503 taken for an authorization failure as well.
IsUnauthorizedAlso503(s) == s = 403 \/ s = 401 \/ s = 503

\* e.response.status_code == 403 or e.response.status_code == 401
IsUnauthorized(s) == s = 403 \/ s = 401

\* The 503 branch missing.
IsUnavailableNever(s) == FALSE

\* Every 5xx-like status 500/503 retried.
IsUnavailableAlso500(s) == s = 503 \/ s = 500

\* e.response.status_code == 503
IsUnavailable(s) == s = 503

\* self.username alone decides.
HasCredentialsUserOnly(u, p) == Truthy(u)

\* self.username and self.password
HasCredentials(u, p) == Truthy(u) /\ Truthy(p)

\* The guard of refresh_device_token: login_device_code is called iff it holds.
RefreshGuard(ud, cid, auth, sc) == ud /\ Truthy(cid) /\ Truthy(auth) /\ sc # <<>>

\* `raise last_exception`: raising None raises a TypeError instead.
RaiseValue(last) == IF last = NoneExc THEN TypeErrorExc ELSE last

\* last_exception after the `except Exception` clause caught e.
LastAfterException(last, e) == IF MentionsAuthCookies(e) THEN last ELSE e

\* range(4): login tries once more than it should.
LoginRetriesOneMore(i) == i < LoginAttempts

\* The branch of login after one attempt at index i that raised:
\* sleep and try again, or fall out of the loop and return False.
LoginRetries(i) == i < LoginAttempts - 1

\* The wrapper gives up whatever login returned.
AfterLoginAlwaysRaise(b) == "raise"

\* What the wrapper does with the value login returned.
AfterLogin(b) == IF b THEN "continue" ELSE "raise"

\* ----------------------------------------------------------------- Init
Init ==
    /\ username = "None"
    /\ password = "None"
    /\ using_device = FALSE
    /\ client_id = "None"
    /\ authority = "None"
    /\ scopes = <<>>
    /\ pc = "idle"
    /\ max_retries = 0
    /\ delay_seconds = DelaySeconds
    /\ attempt = 0
    /\ last_exception = NoneExc
    /\ caught = NoneExc
    /\ outcome = NoOutcome
    /\ trace = <<>>
    /\ loginAttempt = 0
    /\ loginSleeps = 0
    /\ loginCaller = "top"
    /\ loginResult = FALSE
    /\ loginLog = <<>>
    /\ ctxPending = FALSE
    /\ opArg = "path"
    /\ handleOnCtx = TRUE
    /\ handlePending = FALSE
    /\ dlPc = "idle"
    /\ arquivo_sp = "File"
    /\ max_tentativas = 0
    /\ dlMaxRetries = 0
    /\ dlAttempt = 0
    /\ tentativa = 0
    /\ tamanho_remoto = 0
    /\ dlLast = NoneExc
    /\ dlOutcome = NoOutcome
    /\ fileExists = FALSE
    /\ fileSize = 0
    /\ touched = FALSE
    /\ transfers = 0
    /\ mismatches = 0
    /\ nPc = "idle"
    /\ nMaxRetries = 0
    /\ outerAttempt = 0
    /\ innerAttempt = 0
    /\ outerLast = NoneExc
    /\ innerLast = NoneExc
    /\ nPending = NoneExc
    /\ nOutcome = NoOutcome
    /\ innerCalls = 0
    /\ innerSeen = {}
    /\ nLogins = 0
    /\ tree = {<<>>}
    /\ files = {}
    /\ fsPc = "idle"
    /\ fsOp = "none"
    /\ fsPath = <<>>
    /\ nome_pasta = <<>>
    /\ fsMaxRetries = 0
    /\ fsAttempt = 0
    /\ fsLast = NoneExc
    /\ path_parts = <<>>
    /\ current_folder = <<>>
    /\ created = <<>>
    /\ fsOutcome = FsNoOutcome
    /\ prevCall = NoCall

\* ------------------------------------------------------- loop bookkeeping
\* `continue` (or the end of the loop body) at the current attempt, with
\* last_exception already updated to `last`: the next iteration, or the
\* `raise last_exception` after the loop.
Continue(last) ==
    IF attempt + 1 \in LoopRange(max_retries)
    THEN /\ pc' = "attempt"
         /\ attempt' = attempt + 1
         /\ outcome' = NoOutcome
    ELSE /\ pc' = "done"
         /\ attempt' = attempt
         /\ outcome' = Raised(RaiseValue(last))

\* `raise e` inside an except clause: the executor call ends.
Abort(e) ==
    /\ pc' = "done"
    /\ attempt' = attempt
    /\ outcome' = Raised(e)

\* ------------------------------------------- what an attempt does to ctx
\* self.ctx.clear(), then func ran its requests to the end: nothing is left
\* on the context they ran on.
CtxAfterSuccess ==
    /\ ctxPending' = FALSE
    /\ handlePending' = (IF RunsOnSelf THEN handlePending ELSE FALSE)
    /\ UNCHANGED <<opArg, handleOnCtx>>

\* self.ctx.clear(), then a request of func failed: its state stays on the
\* context it ran on.
CtxAfterFailure ==
    /\ ctxPending' = RunsOnSelf
    /\ handlePending' = (IF RunsOnSelf THEN handlePending ELSE TRUE)
    /\ UNCHANGED <<opArg, handleOnCtx>>

\* The same, followed by login_device_code: self.ctx = ClientContext(...),
\* a new object whose own execute_query returns (ok) or raises; a handle
\* stays on the context it was made on, with what the failure left there.
CtxAfterFailureAndRefresh(ok) ==
    /\ ctxPending' = ~ok
    /\ IF opArg = "handle"
       THEN handleOnCtx' = FALSE /\ handlePending' = TRUE
       ELSE UNCHANGED <<handleOnCtx, handlePending>>
    /\ UNCHANGED opArg

\* ---------------------------------------------------- top-level operations
\* A caller invokes a decorated operation, with a path or with a handle it
\* got from this session's context: wrapper starts.
Call(mr, arg) ==
    /\ pc = "idle"
    /\ opArg' = arg
    /\ handleOnCtx' = TRUE
    /\ handlePending' = FALSE
    /\ UNCHANGED ctxPending
    /\ max_retries' = mr
    /\ delay_seconds' = DelaySeconds
    /\ last_exception' = NoneExc
    /\ caught' = NoneExc
    /\ trace' = <<>>
    /\ attempt' = 0
    /\ IF 0 \in LoopRange(mr)
       THEN pc' = "attempt" /\ outcome' = NoOutcome
       ELSE pc' = "done" /\ outcome' = Raised(RaiseValue(NoneExc))
    /\ UNCHANGED <<session, loginv>>
    /\ UNCHANGED others

\* The caller has the result of the executor call; the wrapper's locals
\* (attempt, last_exception, e) are gone with its frame.
Return ==
    /\ pc = "done"
    /\ pc' = "idle"
    /\ attempt' = 0
    /\ last_exception' = NoneExc
    /\ caught' = NoneExc
    /\ outcome' = NoOutcome
    /\ trace' = <<>>
    /\ opArg' = "path"
    /\ handleOnCtx' = TRUE
    /\ handlePending' = FALSE
    /\ UNCHANGED <<session, max_retries, delay_seconds, loginv, ctxPending>>
    /\ UNCHANGED others

\* A caller invokes login(username, password).
LoginCall(u, p) ==
    /\ pc = "idle"
    /\ username' = u
    /\ password' = p
    /\ loginAttempt' = 0
    /\ loginSleeps' = 0
    /\ loginCaller' = "top"
    /\ loginLog' = <<>>
    /\ pc' = "login"
    /\ UNCHANGED <<using_device, client_id, authority, scopes, exec, loginResult, ctxv>>
    /\ UNCHANGED others

\* A caller invokes login_device_code(client_id, authority, scopes); whether
\* its execute_query returns (ok) or raises, the session fields are set and
\* self.ctx is a new context.
LoginDeviceCode(c, a, s, ok) ==
    /\ pc = "idle"
    /\ using_device' = TRUE
    /\ client_id' = c
    /\ authority' = a
    /\ scopes' = s
    /\ ctxPending' = ~ok
    /\ UNCHANGED <<username, password, pc, exec, loginv, opArg, handleOnCtx, handlePending>>
    /\ UNCHANGED others

\* ------------------------------------------------- one attempt of wrapper
\* Each action below is one iteration of the wrapper's loop: self.ctx.clear(),
\* the invocation of func, and the whole except clause its outcome selects.

\* func returns: the wrapper returns its result.
AttemptSuccess ==
    /\ pc = "attempt"
    /\ trace' = Append(trace, EvInvoke(attempt, NoneExc))
    /\ pc' = "done"
    /\ outcome' = Returned(attempt)
    /\ CtxAfterSuccess
    /\ UNCHANGED <<session, max_retries, delay_seconds, attempt, last_exception,
                   caught, loginv>>
    /\ UNCHANGED others

\* ClientRequestException with status 429: sleep 60 * (attempt + 1), continue.
AttemptRateLimited(s) ==
    /\ pc = "attempt"
    /\ IsRateLimited(s)
    /\ LET e == ClientRequestException(s, attempt) IN
       /\ last_exception' = e
       /\ trace' = trace \o <<EvInvoke(attempt, e),
                              EvSleep(attempt, RateLimitWait(attempt))>>
       /\ Continue(e)
    /\ CtxAfterFailure
    /\ UNCHANGED <<session, max_retries, delay_seconds, caught, loginv>>
    /\ UNCHANGED others

\* 401/403 on a session that uses the device code: refresh_device_token()
\* and continue; an error of login_device_code leaves the except clause.
AttemptUnauthorizedDevice(s, refreshOk) ==
    /\ pc = "attempt"
    /\ ~IsRateLimited(s) /\ IsUnauthorized(s)
    /\ using_device
    /\ LET e == ClientRequestException(s, attempt)
           called == RefreshGuard(using_device, client_id, authority, scopes)
       IN
       /\ last_exception' = e
       /\ IF called
          THEN /\ trace' = trace \o <<EvInvoke(attempt, e), EvRefresh(attempt, refreshOk)>>
               /\ IF refreshOk
                  THEN Continue(e)
                  ELSE Abort(OtherException(MsgRefresh, attempt))
          ELSE /\ refreshOk
               /\ trace' = Append(trace, EvInvoke(attempt, e))
               /\ Continue(e)
    /\ IF RefreshGuard(using_device, client_id, authority, scopes)
       THEN CtxAfterFailureAndRefresh(refreshOk)
       ELSE CtxAfterFailure
    /\ UNCHANGED <<session, max_retries, delay_seconds, caught, loginv>>
    /\ UNCHANGED others

\* 401/403 without username and password: raise e.
AttemptUnauthorizedNoCredentials(s) ==
    /\ pc = "attempt"
    /\ ~IsRateLimited(s) /\ IsUnauthorized(s)
    /\ ~using_device
    /\ ~HasCredentials(username, password)
    /\ LET e == ClientRequestException(s, attempt) IN
       /\ last_exception' = e
       /\ trace' = Append(trace, EvInvoke(attempt, e))
       /\ Abort(e)
    /\ CtxAfterFailure
    /\ UNCHANGED <<session, max_retries, delay_seconds, caught, loginv>>
    /\ UNCHANGED others

\* 401/403 with username and password: self.login(username, password) starts.
AttemptUnauthorizedLogin(s) ==
    /\ pc = "attempt"
    /\ ~IsRateLimited(s) /\ IsUnauthorized(s)
    /\ ~using_device
    /\ HasCredentials(username, password)
    /\ LET e == ClientRequestException(s, attempt) IN
       /\ last_exception' = e
       /\ caught' = e
       /\ trace' = Append(trace, EvInvoke(attempt, e))
    /\ pc' = "login"
    /\ loginAttempt' = 0
    /\ loginSleeps' = 0
    /\ loginCaller' = "wrapper"
    /\ loginLog' = <<>>
    /\ CtxAfterFailure
    /\ UNCHANGED <<session, max_retries, delay_seconds, attempt, outcome, loginResult>>
    /\ UNCHANGED others

\* 503: sleep delay_seconds, continue.
AttemptUnavailable(s) ==
    /\ pc = "attempt"
    /\ ~IsRateLimited(s) /\ ~IsUnauthorized(s) /\ IsUnavailable(s)
    /\ LET e == ClientRequestException(s, attempt) IN
       /\ last_exception' = e
       /\ trace' = trace \o <<EvInvoke(attempt, e), EvSleep(attempt, delay_seconds)>>
       /\ Continue(e)
    /\ CtxAfterFailure
    /\ UNCHANGED <<session, max_retries, delay_seconds, caught, loginv>>
    /\ UNCHANGED others

\* Any other ClientRequestException: raise e.
AttemptNonRecoverable(s) ==
    /\ pc = "attempt"
    /\ ~IsRateLimited(s) /\ ~IsUnauthorized(s) /\ ~IsUnavailable(s)
    /\ LET e == ClientRequestException(s, attempt) IN
       /\ last_exception' = e
       /\ trace' = Append(trace, EvInvoke(attempt, e))
       /\ Abort(e)
    /\ CtxAfterFailure
    /\ UNCHANGED <<session, max_retries, delay_seconds, caught, loginv>>
    /\ UNCHANGED others

\* An Exception whose message mentions "auth cookies": refresh_device_token()
\* and continue, last_exception untouched, no sleep.
AttemptAuthCookies(m, refreshOk) ==
    /\ pc = "attempt"
    /\ LET e == OtherException(m, attempt)
           called == RefreshGuard(using_device, client_id, authority, scopes)
           last == LastAfterException(last_exception, e)
       IN
       /\ MentionsAuthCookies(e)
       /\ last_exception' = last
       /\ IF called
          THEN /\ trace' = trace \o <<EvInvoke(attempt, e), EvRefresh(attempt, refreshOk)>>
               /\ IF refreshOk
                  THEN Continue(last)
                  ELSE Abort(OtherException(MsgRefresh, attempt))
          ELSE /\ refreshOk
               /\ trace' = Append(trace, EvInvoke(attempt, e))
               /\ Continue(last)
    /\ IF RefreshGuard(using_device, client_id, authority, scopes)
       THEN CtxAfterFailureAndRefresh(refreshOk)
       ELSE CtxAfterFailure
    /\ UNCHANGED <<session, max_retries, delay_seconds, caught, loginv>>
    /\ UNCHANGED others

\* Any other Exception: remember it, sleep delay_seconds, next iteration.
AttemptUnexpected(m) ==
    /\ pc = "attempt"
    /\ LET e == OtherException(m, attempt)
           last == LastAfterException(last_exception, e)
       IN
       /\ ~MentionsAuthCookies(e)
       /\ last_exception' = last
       /\ trace' = trace \o <<EvInvoke(attempt, e), EvSleep(attempt, delay_seconds)>>
       /\ Continue(last)
    /\ CtxAfterFailure
    /\ UNCHANGED <<session, max_retries, delay_seconds, caught, loginv>>
    /\ UNCHANGED others

\* ------------------------------------------------------------------ login
\* login returns b: to the caller, or into the wrapper's 401/403 branch
\* (`continue` on True, `raise e` on False).
LoginReturn(b) ==
    /\ loginResult' = b
    /\ IF loginCaller = "top"
       THEN /\ pc' = "idle"
            /\ UNCHANGED <<attempt, outcome, trace>>
       ELSE /\ trace' = Append(trace, EvLogin(attempt, b))
            /\ IF AfterLogin(b) = "continue"
               THEN Continue(last_exception)
               ELSE Abort(caught)

\* One attempt of login whose authentication call succeeds: return True.
LoginSucceeds ==
    /\ pc = "login"
    /\ loginLog' = Append(loginLog, "ok")
    /\ LoginReturn(TRUE)
    /\ ctxPending' = FALSE
    /\ UNCHANGED <<opArg, handleOnCtx, handlePending>>
    /\ UNCHANGED <<session, max_retries, delay_seconds, last_exception, caught,
                   loginAttempt, loginSleeps, loginCaller>>
    /\ UNCHANGED others

\* One attempt of login that raises, not the last: sleep 3 and try again.
LoginFailsRetry ==
    /\ pc = "login"
    /\ LoginRetries(loginAttempt)
    /\ loginAttempt' = loginAttempt + 1
    /\ loginSleeps' = loginSleeps + LoginDelay
    /\ loginLog' = loginLog \o <<"fail", "sleep">>
    /\ ctxPending' = TRUE
    /\ UNCHANGED <<opArg, handleOnCtx, handlePending>>
    /\ UNCHANGED <<session, pc, exec, loginCaller, loginResult>>
    /\ UNCHANGED others

\* The last attempt of login raises: the loop ends, return False.
LoginFailsLast ==
    /\ pc = "login"
    /\ ~LoginRetries(loginAttempt)
    /\ loginLog' = Append(loginLog, "fail")
    /\ LoginReturn(FALSE)
    /\ ctxPending' = TRUE
    /\ UNCHANGED <<opArg, handleOnCtx, handlePending>>
    /\ UNCHANGED <<session, max_retries, delay_seconds, last_exception, caught,
                   loginAttempt, loginSleeps, loginCaller>>
    /\ UNCHANGED others

\* ------------------------------------------------------------------- Next
Next ==
    \/ \E mr \in 0 .. MaxRetries, arg \in {"path", "handle"} : Call(mr, arg)
    \/ Return
    \/ \E u \in Usernames, p \in Passwords : LoginCall(u, p)
    \/ \E c \in ClientIds, a \in Authorities, s \in ScopeLists, b \in BOOLEAN :
          LoginDeviceCode(c, a, s, b)
    \/ AttemptSuccess
    \/ \E s \in Statuses : AttemptRateLimited(s)
    \/ \E s \in Statuses, b \in BOOLEAN : AttemptUnauthorizedDevice(s, b)
    \/ \E s \in Statuses : AttemptUnauthorizedNoCredentials(s)
    \/ \E s \in Statuses : AttemptUnauthorizedLogin(s)
    \/ \E s \in Statuses : AttemptUnavailable(s)
    \/ \E s \in Statuses : AttemptNonRecoverable(s)
    \/ \E m \in Messages, b \in BOOLEAN : AttemptAuthCookies(m, b)
    \/ \E m \in Messages : AttemptUnexpected(m)
    \/ LoginSucceeds
    \/ LoginFailsRetry
    \/ LoginFailsLast

Spec == Init /\ [][Next]_vars

\* ------------------------------------------------ reading the trace back
\* Positions of the trace where func was invoked.
Invokes == {i \in DOMAIN trace : trace[i].ev = "invoke"}

\* The executor call in progress (or just finished) has a trace to read.
InCall == pc \in {"attempt", "login", "done"}

\* Position i is an invocation that raised a ClientRequestException with a
\* status in S.
FailedWith(i, S) ==
    /\ i \in Invokes
    /\ trace[i].exc.cls = "ClientRequestException"
    /\ trace[i].exc.status \in S

\* Position i is an invocation that raised an error that is no
\* ClientRequestException.
FailedUnclassified(i) == i \in Invokes /\ trace[i].exc.cls = "Exception"

\* After position i the operation is invoked again, with nothing in between:
\* the next event is the invocation, or the wrapper stands before it.
InvokedAgainRightAfter(i) ==
    IF i + 1 <= Len(trace)
    THEN trace[i + 1].ev = "invoke" /\ trace[i + 1].at = trace[i].at + 1
    ELSE pc = "attempt" /\ attempt = trace[i].at + 1

\* The executor call ended at position i by raising e.
EndedRaising(i, e) == i = Len(trace) /\ pc = "done" /\ outcome = Raised(e)

\* ------------------------------------------------------------------ C1
\* C1: one executor call invokes the wrapped function at most max_retries
\* times, returns the result of the first invocation that succeeds, and
\* never invokes the function again after a success.
C1_AtMostMaxRetriesFirstSuccess ==
    InCall =>
        /\ Cardinality(Invokes) <= max_retries
        /\ \A i \in Invokes : trace[i].ok =>
              /\ i = Len(trace)
              /\ pc = "done"
              /\ outcome = Returned(trace[i].at)
        /\ outcome.kind = "returned" =>
              \E i \in Invokes : trace[i].ok /\ trace[i].at = outcome.result

\* A call with max_retries = 3 that returned the result of its third invocation.
C1_Witness ==
    /\ pc = "done"
    /\ max_retries = 3
    /\ outcome = Returned(2)
    /\ Cardinality(Invokes) = 3

\* ------------------------------------------------------------------ C2
\* C2: when all max_retries attempts of one executor call fail, the executor
\* raises the failure observed on the last attempt, never an earlier failure
\* and never the raising of None.
C2_RaisesLastFailure ==
    ( /\ pc = "done"
      /\ max_retries >= 1
      /\ Cardinality(Invokes) = max_retries
      /\ \A i \in Invokes : ~trace[i].ok )
    => \E i \in Invokes :
          /\ trace[i].at = max_retries - 1
          /\ outcome = Raised(trace[i].exc)

\* ------------------------------------------------------------------ C3
\* C3 as claimed: with cached username and password, after every attempt
\* that fails with 401/403, the last one included, re-login is attempted
\* before any further invocation, and a successful re-login is followed by
\* another invocation of the operation in the same call, with no sleep.
C3_ReloginThenReissueAlways ==
    pc = "done" =>
        \A i \in Invokes :
            (FailedWith(i, {401, 403}) /\ Truthy(username) /\ Truthy(password)) =>
                /\ i + 1 <= Len(trace)
                /\ trace[i + 1].ev \in {"login", "refresh"}
                /\ trace[i + 1].ok =>
                      (i + 2 <= Len(trace) /\ trace[i + 2].ev = "invoke")

\* C3 amended: on a session with cached username and password (that does
\* not use the device code, or whose device parameters are all set), after an
\* attempt that fails with 401/403, re-authentication is attempted before any
\* further invocation; if it succeeds and the attempt is not the last one,
\* the operation is invoked again in the same call with no sleep in between;
\* if it succeeds on the last attempt the call ends raising that 401/403.
C3_ReloginThenReissueWithinBudget ==
    InCall =>
        \A i \in Invokes :
            ( /\ FailedWith(i, {401, 403})
              /\ Truthy(username) /\ Truthy(password)
              /\ (using_device =>
                    (client_id \notin {"None", ""} /\ authority \notin {"None", ""} /\ Len(scopes) > 0)) )
            =>
                \/ i = Len(trace) /\ pc = "login" /\ ~using_device
                \/ /\ i + 1 <= Len(trace)
                   /\ trace[i + 1].ev = (IF using_device THEN "refresh" ELSE "login")
                   /\ trace[i + 1].ok =>
                         IF trace[i].at < max_retries - 1
                         THEN InvokedAgainRightAfter(i + 1)
                         ELSE EndedRaising(i + 1, trace[i].exc)

\* A 403 at the first attempt, a successful login, and the operation invoked
\* again right after it.
C3_Witness ==
    /\ InCall
    /\ Truthy(username) /\ Truthy(password) /\ ~using_device
    /\ Len(trace) >= 3
    /\ FailedWith(1, {403})
    /\ trace[2].ev = "login" /\ trace[2].ok
    /\ trace[3].ev = "invoke" /\ trace[3].at = 1

\* ------------------------------------------------------------------ C4
\* C4 as claimed: on a session without cached credentials, the device-code
\* sessions included, a 401/403 makes the executor raise that failure at
\* once: no sleep, no re-authentication, no further invocation.
C4_NoCredentialsAbortsAlways ==
    InCall =>
        \A i \in Invokes :
            (FailedWith(i, {401, 403}) /\ ~(Truthy(username) /\ Truthy(password))) =>
                EndedRaising(i, trace[i].exc)

\* C4 amended: on a session without cached credentials that does not use
\* the device code, a 401/403 makes the executor raise that failure at once:
\* no sleep, no re-authentication, no further invocation.
C4_NoCredentialsAbortsUnlessDevice ==
    InCall =>
        \A i \in Invokes :
            ( /\ FailedWith(i, {401, 403})
              /\ ~(Truthy(username) /\ Truthy(password))
              /\ ~using_device )
            => EndedRaising(i, trace[i].exc)

\* A 401 at the second attempt of a session whose password is empty.
C4_Witness ==
    /\ pc = "done"
    /\ username = "user" /\ password = "" /\ ~using_device
    /\ Len(trace) = 3
    /\ FailedWith(3, {401})
    /\ trace[3].at = 1
    /\ outcome = Raised(trace[3].exc)

\* ------------------------------------------------------------------ C5
\* C5: when the re-authentication a 401/403 triggered fails (login returns
\* False, or the device-token refresh raises), the executor raises the
\* original 401/403 failure and does not invoke the operation again.
C5_ReauthFailureRaisesOriginal ==
    InCall =>
        \A i \in Invokes :
            ( /\ FailedWith(i, {401, 403})
              /\ i + 1 <= Len(trace)
              /\ trace[i + 1].ev \in {"login", "refresh"}
              /\ ~trace[i + 1].ok )
            => EndedRaising(i + 1, trace[i].exc)

\* ------------------------------------------------------------------ C6
\* Every failure the executor call observed so far is a 429.
OnlyRateLimited ==
    /\ Invokes # {}
    /\ \A i \in Invokes : ~trace[i].ok => FailedWith(i, {429})

\* C6 as claimed: if every failure observed in one executor call is a 429,
\* the call does not end by raising a failure.
C6_RateLimitNeverRaises ==
    (pc = "done" /\ OnlyRateLimited) => outcome.kind # "raised"

\* C6 amended: if every failure observed in one executor call is a 429, the
\* call does not end by raising before all max_retries attempts were made;
\* it raises (the 429 of the last attempt) only once the budget is exhausted.
C6_RateLimitRaisesOnlyAtExhaustion ==
    (pc = "done" /\ OnlyRateLimited /\ outcome.kind = "raised") =>
        /\ Cardinality(Invokes) = max_retries
        /\ \E i \in Invokes :
              /\ trace[i].at = max_retries - 1
              /\ FailedWith(i, {429})
              /\ outcome.exc = trace[i].exc

\* Three rate-limited attempts out of three, and the call raised.
C6_Witness ==
    /\ pc = "done"
    /\ max_retries = 3
    /\ OnlyRateLimited
    /\ Cardinality(Invokes) = 3
    /\ outcome.kind = "raised"
    /\ outcome.exc.status = 429

\* ------------------------------------------------------------------ C7
\* C7: a 429 at attempt index a is followed by a sleep of exactly
\* 60 * (a + 1) seconds, so the sleeps after successive 429 failures of one
\* executor call are strictly increasing, whatever happens in between.
C7_RateLimitSleepGrows ==
    InCall =>
        /\ \A i \in Invokes : FailedWith(i, {429}) =>
              /\ i + 1 <= Len(trace)
              /\ trace[i + 1].ev = "sleep"
              /\ trace[i + 1].secs = 60 * (trace[i].at + 1)
        /\ \A i, j \in Invokes :
              (i < j /\ FailedWith(i, {429}) /\ FailedWith(j, {429})) =>
                  trace[i + 1].secs < trace[j + 1].secs

\* A 429 at the first attempt, another failure class at the second, a 429
\* again at the third: sleeps of 60 and 180 seconds.
C7_Witness ==
    /\ InCall
    /\ Len(trace) >= 6
    /\ FailedWith(1, {429}) /\ trace[2].secs = 60
    /\ FailedWith(3, {503})
    /\ FailedWith(5, {429}) /\ trace[6].secs = 180

\* ------------------------------------------------------------------ C8
\* The executor slept s seconds after the failure at position i and then
\* invoked the operation again.
SleptThenInvokedAgain(i, s) ==
    /\ i + 1 <= Len(trace)
    /\ trace[i + 1].ev = "sleep"
    /\ trace[i + 1].secs = s
    /\ InvokedAgainRightAfter(i + 1)

\* C8 as claimed: on a 503 or a 504 at an attempt that is not the last, the
\* executor sleeps delay_seconds and invokes the operation again.
C8_Retries503And504 ==
    InCall =>
        \A i \in Invokes :
            (FailedWith(i, {503, 504}) /\ trace[i].at < max_retries - 1) =>
                SleptThenInvokedAgain(i, 3)

\* C8 amended: on a 503 at an attempt that is not the last, the executor
\* sleeps delay_seconds and invokes the operation again; a 504 is not
\* retried, the executor raises it on the attempt where it occurred.
C8_Retries503Only ==
    InCall =>
        \A i \in Invokes :
            /\ (FailedWith(i, {503}) /\ trace[i].at < max_retries - 1) =>
                  SleptThenInvokedAgain(i, 3)
            /\ FailedWith(i, {504}) => EndedRaising(i, trace[i].exc)

\* A 503 at the first attempt, a sleep of delay_seconds, a second invocation.
C8_Witness ==
    /\ InCall
    /\ Len(trace) >= 3
    /\ FailedWith(1, {503})
    /\ trace[2].ev = "sleep" /\ trace[2].secs = 3
    /\ trace[3].ev = "invoke" /\ trace[3].at = 1

\* ------------------------------------------------------------------ C9
\* C9: a ClientRequestException whose status is none of 429, 401, 403, 503,
\* 504 is raised on the attempt where it occurred: no sleep, no
\* re-authentication, no further invocation, whatever the attempt index.
C9_OtherStatusAbortsAtOnce ==
    InCall =>
        \A i \in Invokes :
            ( /\ i \in Invokes
              /\ trace[i].exc.cls = "ClientRequestException"
              /\ trace[i].exc.status \notin {429, 401, 403, 503, 504} )
            => EndedRaising(i, trace[i].exc)

\* A 500 at the third attempt, raised as it is.
C9_Witness ==
    /\ pc = "done"
    /\ Len(trace) >= 3
    /\ FailedWith(Len(trace), {500})
    /\ trace[Len(trace)].at = 2
    /\ outcome = Raised(trace[Len(trace)].exc)

\* ----------------------------------------------------------------- C10
\* The failure at position i is followed by a sleep of delay_seconds, then by
\* the next attempt if one remains, and the call does not end there unless
\* the budget is exhausted.
SleptAndRetriedWithinBudget(i) ==
    /\ i + 1 <= Len(trace)
    /\ trace[i + 1].ev = "sleep"
    /\ trace[i + 1].secs = 3
    /\ IF trace[i].at < max_retries - 1
       THEN InvokedAgainRightAfter(i + 1)
       ELSE i + 1 = Len(trace) /\ pc = "done" /\ outcome.kind = "raised"

\* C10 as claimed: every error that is no ClientRequestException, the one
\* mentioning "auth cookies" included, makes the executor sleep
\* delay_seconds and then retry if attempts remain.
C10_UnclassifiedAlwaysSleeps ==
    InCall => \A i \in Invokes : FailedUnclassified(i) => SleptAndRetriedWithinBudget(i)

\* C10 amended: every error that is no ClientRequestException and does not
\* mention "auth cookies" makes the executor sleep delay_seconds and then
\* retry if attempts remain; it is never retried without that sleep and the
\* call never ends on it before the budget is exhausted.
C10_UnclassifiedSleepsUnlessAuthCookies ==
    InCall =>
        \A i \in Invokes :
            (FailedUnclassified(i) /\ trace[i].exc.msg # MsgAuthCookies) =>
                SleptAndRetriedWithinBudget(i)

\* A timeout at the first attempt, a sleep of delay_seconds, a second
\* invocation.
C10_Witness ==
    /\ InCall
    /\ Len(trace) >= 3
    /\ FailedUnclassified(1) /\ trace[1].exc.msg = MsgTimeout
    /\ trace[2].ev = "sleep" /\ trace[2].secs = 3
    /\ trace[3].ev = "invoke" /\ trace[3].at = 1

\* ----------------------------------------------------------------- C15
\* Position i is an authentication call of the executor: a finished login
\* or a login_device_code run by refresh_device_token.
AuthCall(i) == i \in DOMAIN trace /\ trace[i].ev \in {"login", "refresh"}

\* C15 as claimed: the executor makes an authentication call only when the
\* failure of the attempt is a 401/403 and username and password are cached.
C15_ReauthOnlyOnAuthFailureWithCredentials ==
    InCall =>
        /\ \A i \in DOMAIN trace : AuthCall(i) =>
              /\ i > 1
              /\ FailedWith(i - 1, {401, 403})
              /\ Truthy(username) /\ Truthy(password)
        /\ (pc = "login" /\ loginCaller = "wrapper") =>
              /\ Len(trace) >= 1
              /\ FailedWith(Len(trace), {401, 403})
              /\ Truthy(username) /\ Truthy(password)

\* C15 amended: the executor calls login only when the failure of the
\* attempt is a 401/403, username and password are cached and the session
\* does not use the device code; it runs the device-code login only on a
\* session that uses the device code (with client id, authority and scopes
\* set), after a 401/403 or after an unclassified error that mentions
\* "auth cookies"; no other failure class causes an authentication call.
C15_ReauthOnlyOnAuthFailureOrExpiredToken ==
    InCall =>
        /\ \A i \in DOMAIN trace : (AuthCall(i) /\ trace[i].ev = "login") =>
              /\ i > 1
              /\ FailedWith(i - 1, {401, 403})
              /\ Truthy(username) /\ Truthy(password)
              /\ ~using_device
        /\ \A i \in DOMAIN trace : (AuthCall(i) /\ trace[i].ev = "refresh") =>
              /\ i > 1
              /\ \/ FailedWith(i - 1, {401, 403})
                 \/ FailedUnclassified(i - 1) /\ trace[i - 1].exc.msg = MsgAuthCookies
              /\ using_device
              /\ client_id \notin {"None", ""} /\ authority \notin {"None", ""}
              /\ Len(scopes) > 0
        /\ (pc = "login" /\ loginCaller = "wrapper") =>
              /\ Len(trace) >= 1
              /\ FailedWith(Len(trace), {401, 403})
              /\ Truthy(username) /\ Truthy(password)
              /\ ~using_device

\* A 503 at the first attempt that caused no authentication call, then a
\* 401 at the second attempt followed by login.
C15_Witness ==
    /\ InCall
    /\ Len(trace) >= 4
    /\ FailedWith(1, {503})
    /\ trace[2].ev = "sleep"
    /\ FailedWith(3, {401})
    /\ trace[4].ev = "login"

\* ----------------------------------------------------------------- C16
\* Positions of loginLog where the authentication call was attempted.
LoginTries == {i \in DOMAIN loginLog : loginLog[i] \in {"ok", "fail"}}

\* The login call recorded in loginLog has returned.
LoginReturned == pc # "login" /\ loginLog # <<>>

\* C16: one call of login attempts the authentication call at most 3 times,
\* stops at the first attempt that succeeds, sleeps the fixed 3 seconds only
\* between two attempts (not after the third failure), and ends by returning
\* True iff some attempt succeeded.
C16_LoginThreeAttemptsBoolean ==
    /\ Cardinality(LoginTries) <= 3
    /\ \A i \in DOMAIN loginLog : loginLog[i] = "ok" => (i = Len(loginLog) /\ LoginReturned)
    /\ \A i \in DOMAIN loginLog : loginLog[i] = "sleep" =>
          /\ i > 1 /\ loginLog[i - 1] = "fail"
          /\ IF i < Len(loginLog) THEN loginLog[i + 1] \in {"ok", "fail"} ELSE pc = "login"
    /\ \A i \in DOMAIN loginLog : (loginLog[i] = "fail" /\ i < Len(loginLog)) =>
          loginLog[i + 1] = "sleep"
    /\ loginSleeps = 3 * Cardinality({i \in DOMAIN loginLog : loginLog[i] = "sleep"})
    /\ LoginReturned =>
          /\ loginResult = (\E i \in DOMAIN loginLog : loginLog[i] = "ok")
          /\ ~loginResult => Cardinality(LoginTries) = 3

\* A login called by a user that failed three times, slept twice and
\* returned False.
C16_Witness ==
    /\ pc = "idle"
    /\ loginCaller = "top"
    /\ loginLog = <<"fail", "sleep", "fail", "sleep", "fail">>
    /\ loginResult = FALSE

\* ----------------------------------------------------------------- C14
\* C14: no attempt of a decorated operation starts while the client context
\* its remote calls run on still holds the request state a failed attempt
\* left, also after a re-authentication between the two attempts.
C14_EveryAttemptStartsClean ==
    InCall => \A i \in Invokes : ~trace[i].stale

\* =================================================================
\* baixar_arquivo under its wrapper (SpecDownload)
\* =================================================================
\* Largest max_retries of the wrapper around baixar_arquivo in this part.
MaxDlRetries == 2
\* Largest max_tentativas.
MaxTentativas == 2
\* file_to_download.length as the server reports it.
RemoteLengths == {1, 2}
\* len(response.content) of one transfer.
DataLengths == {0, 1, 2}
\* Statuses of the ClientRequestException a remote call of the download can
\* raise here; 401/403 and the session are the matter of Spec.
DlStatuses == {429, 503, 500}

MsgIOError == "could not download the file with the right size"
MsgFileNotFound == "remote file not found"

\* What the except clauses of the wrapper do with e when no
\* re-authentication is involved: go on with the loop, or raise e.
WrapperDecision(e) ==
    IF e.cls = "ClientRequestException"
    THEN IF IsRateLimited(e.status) THEN "continue"
         ELSE IF IsUnauthorized(e.status) THEN "reauth"
         ELSE IF IsUnavailable(e.status) THEN "continue"
         ELSE "raise"
    ELSE IF MentionsAuthCookies(e) THEN "refresh" ELSE "continue"

\* last_exception after the wrapper caught e.
LastAfter(last, e) ==
    IF e.cls = "ClientRequestException" THEN e ELSE LastAfterException(last, e)

\* The wrapper around baixar_arquivo caught e at dlAttempt: the next
\* iteration (func starts over), `raise last_exception` after the loop, or
\* `raise e`.
DlHandle(e) ==
    /\ dlLast' = LastAfter(dlLast, e)
    /\ IF WrapperDecision(e) = "continue"
       THEN IF dlAttempt + 1 \in LoopRange(dlMaxRetries)
            THEN /\ dlPc' = "resolve"
                 /\ dlAttempt' = dlAttempt + 1
                 /\ dlOutcome' = NoOutcome
            ELSE /\ dlPc' = "done"
                 /\ dlAttempt' = dlAttempt
                 /\ dlOutcome' = Raised(RaiseValue(LastAfter(dlLast, e)))
       ELSE /\ dlPc' = "done"
            /\ dlAttempt' = dlAttempt
            /\ dlOutcome' = Raised(e)

\* A caller invokes baixar_arquivo(arquivo_sp, caminho_download, max_tentativas)
\* on a remote file of n bytes; a file of sz bytes may already be at
\* caminho_download.
DlCall(arg, mr, mt, n, pre, sz) ==
    /\ dlPc = "idle"
    /\ dlOutcome = NoOutcome
    /\ arquivo_sp' = arg
    /\ dlMaxRetries' = mr
    /\ max_tentativas' = mt
    /\ tamanho_remoto' = n
    /\ fileExists' = pre
    /\ fileSize' = (IF pre THEN sz ELSE 0)
    /\ touched' = FALSE
    /\ transfers' = 0
    /\ mismatches' = 0
    /\ dlAttempt' = 0
    /\ tentativa' = 0
    /\ dlLast' = NoneExc
    /\ dlOutcome' = NoOutcome
    /\ dlPc' = "resolve"
    /\ UNCHANGED notDl

\* obter_arquivo(arquivo_sp) returns the file, or file_to_download.get()
\* .execute_query() loads its metadata: the transfers start.
DlResolveOk ==
    /\ dlPc = "resolve"
    /\ dlPc' = "transfer"
    /\ tentativa' = 0
    /\ UNCHANGED <<arquivo_sp, max_tentativas, dlMaxRetries, dlAttempt, tamanho_remoto,
                   dlLast, dlOutcome, fileExists, fileSize, touched, transfers, mismatches>>
    /\ UNCHANGED notDl

\* obter_arquivo returns None: FileNotFoundError, which the wrapper catches
\* as any Exception.
DlResolveNotFound ==
    /\ dlPc = "resolve"
    /\ arquivo_sp = "str"
    /\ DlHandle(OtherException(MsgFileNotFound, dlAttempt))
    /\ UNCHANGED <<arquivo_sp, max_tentativas, dlMaxRetries, tentativa, tamanho_remoto,
                   fileExists, fileSize, touched, transfers, mismatches>>
    /\ UNCHANGED notDl

\* obter_arquivo, or the load of the metadata, raises e.
DlResolveFails(e) ==
    /\ dlPc = "resolve"
    /\ DlHandle(e)
    /\ UNCHANGED <<arquivo_sp, max_tentativas, dlMaxRetries, tentativa, tamanho_remoto,
                   fileExists, fileSize, touched, transfers, mismatches>>
    /\ UNCHANGED notDl

\* One transfer: open(caminho_download, "wb"), the content arrives with the
\* remote length, sizes agree: baixar_arquivo returns.
DlTransferMatch ==
    /\ dlPc = "transfer"
    /\ touched' = TRUE
    /\ fileExists' = TRUE
    /\ fileSize' = tamanho_remoto
    /\ transfers' = transfers + 1
    /\ dlPc' = "done"
    /\ dlOutcome' = Returned(dlAttempt)
    /\ UNCHANGED <<arquivo_sp, max_tentativas, dlMaxRetries, dlAttempt, tentativa,
                   tamanho_remoto, dlLast, mismatches>>
    /\ UNCHANGED notDl

\* One transfer whose content has len bytes, not the remote length, and
\* tentativas remain: sleep 5 and transfer again.
DlTransferMismatchRetry(len) ==
    /\ dlPc = "transfer"
    /\ len # tamanho_remoto
    /\ tentativa < max_tentativas - 1
    /\ touched' = TRUE
    /\ fileExists' = TRUE
    /\ fileSize' = len
    /\ transfers' = transfers + 1
    /\ mismatches' = mismatches + 1
    /\ tentativa' = tentativa + 1
    /\ UNCHANGED <<dlPc, arquivo_sp, max_tentativas, dlMaxRetries, dlAttempt,
                   tamanho_remoto, dlLast, dlOutcome>>
    /\ UNCHANGED notDl

\* The last transfer of the loop has the wrong size: the loop ends, the
\* partial file is removed (os.remove of the file just written is taken to
\* succeed) and IOError is raised, which the wrapper catches as any
\* Exception.
DlTransferMismatchLast(len) ==
    /\ dlPc = "transfer"
    /\ len # tamanho_remoto
    /\ ~(tentativa < max_tentativas - 1)
    /\ touched' = TRUE
    /\ fileExists' = FALSE
    /\ fileSize' = 0
    /\ transfers' = transfers + 1
    /\ mismatches' = mismatches + 1
    /\ DlHandle(OtherException(MsgIOError, dlAttempt))
    /\ UNCHANGED <<arquivo_sp, max_tentativas, dlMaxRetries, tentativa, tamanho_remoto>>
    /\ UNCHANGED notDl

\* One transfer whose execute_request_direct raises e inside the `with`
\* block: the file was opened for writing and stays, empty; e reaches the
\* wrapper.
DlTransferRaises(e) ==
    /\ dlPc = "transfer"
    /\ touched' = TRUE
    /\ fileExists' = TRUE
    /\ fileSize' = 0
    /\ transfers' = transfers + 1
    /\ DlHandle(e)
    /\ UNCHANGED <<arquivo_sp, max_tentativas, dlMaxRetries, tentativa, tamanho_remoto,
                   mismatches>>
    /\ UNCHANGED notDl

\* The failures a remote call of the download raises at the current attempt.
DlFailures ==
    {ClientRequestException(st, dlAttempt) : st \in DlStatuses}
    \cup {OtherException(MsgTimeout, dlAttempt)}

NextDownload ==
    \/ \E arg \in {"str", "File"}, mr \in 1 .. MaxDlRetries, mt \in 1 .. MaxTentativas,
          n \in RemoteLengths, pre \in BOOLEAN, sz \in DataLengths :
          DlCall(arg, mr, mt, n, pre, sz)
    \/ DlResolveOk
    \/ DlResolveNotFound
    \/ \E e \in DlFailures : DlResolveFails(e)
    \/ DlTransferMatch
    \/ \E len \in DataLengths : DlTransferMismatchRetry(len)
    \/ \E len \in DataLengths : DlTransferMismatchLast(len)
    \/ \E e \in DlFailures : DlTransferRaises(e)

SpecDownload == Init /\ [][NextDownload]_vars

\* The wrapper around baixar_arquivo has finished.
DlDone == dlPc = "done"

\* ----------------------------------------------------------------- C11
\* C11: after all download attempts of baixar_arquivo produced a local byte
\* count different from the remote length, the call ends by raising the
\* I/O failure, and then no file is at caminho_download.
C11_AllMismatchRaisesIOErrorNoFile ==
    (DlDone /\ transfers >= 1 /\ mismatches = transfers) =>
        /\ dlOutcome.kind = "raised"
        /\ dlOutcome.exc.msg = MsgIOError
        /\ ~fileExists

\* ----------------------------------------------------------------- C17
\* C17: a call of baixar_arquivo in which every transfer has the wrong size
\* performs at most max_tentativas transfers before the I/O failure reaches
\* the caller: the wrapper does not retry the I/O failure.
C17_AtMostMaxTentativasTransfers ==
    (mismatches = transfers) => transfers <= max_tentativas

\* ----------------------------------------------------------------- C18
\* C18: whenever a call of baixar_arquivo ends by raising, no file this call
\* created or truncated is left at caminho_download; a file is there after
\* the call only if its size is the remote length.
C18_NoPartialFileAfterRaise ==
    DlDone =>
        /\ (dlOutcome.kind = "raised" /\ touched) => ~fileExists
        /\ (fileExists /\ touched) => fileSize = tamanho_remoto

\* =================================================================
\* A decorated operation calling a decorated operation (SpecNested):
\* listar_arquivos(path) -> obter_pasta(path) -> the folder request
\* =================================================================
\* Largest max_retries of the two wrappers in this part.
MaxNestRetries == 2

\* Statuses of the ClientRequestException a remote call raises in this part.
NestStatuses == {503, 401, 404, 500}

\* The outcome of one remote call as a number: the status of its
\* ClientRequestException, 0 for another Exception, 200 for a result.
KindOf(e) ==
    IF e = NoneExc THEN 200
    ELSE IF e.cls = "ClientRequestException" THEN e.status ELSE 0

\* login is run by the wrapper that caught e: a 401/403 on this session
\* (no device code) with username and password cached.
RunsLogin(e) ==
    /\ WrapperDecision(e) = "reauth"
    /\ ~using_device
    /\ HasCredentials(username, password)

\* What a wrapper does with e on this session, login having returned
\* loginOk where it is run: "continue" or "raise".
NestDecision(e, loginOk) ==
    IF WrapperDecision(e) = "reauth"
    THEN IF RunsLogin(e) THEN AfterLogin(loginOk) ELSE "raise"
    ELSE WrapperDecision(e)

\* The caller has called login(u, p) before: the credentials are cached.
NestLogin(u, p) ==
    /\ nPc = "idle"
    /\ nOutcome = NoOutcome
    /\ username' = u
    /\ password' = p
    /\ UNCHANGED <<using_device, client_id, authority, scopes, pc, exec, loginv, ctxv>>
    /\ UNCHANGED <<dlv, nestv, fsv>>

\* A caller invokes listar_arquivos(path): the outer wrapper starts func,
\* which calls obter_pasta, whose wrapper starts.
NestCall(mr) ==
    /\ nPc = "idle"
    /\ nOutcome = NoOutcome
    /\ nMaxRetries' = mr
    /\ nPc' = "inner"
    /\ UNCHANGED <<outerAttempt, innerAttempt, outerLast, innerLast, nPending, nOutcome,
                   innerCalls, innerSeen, nLogins>>
    /\ UNCHANGED notNest

\* The folder request of obter_pasta returns: obter_pasta returns the
\* folder and listar_arquivos goes on to its own request.
NestInnerOk ==
    /\ nPc = "inner"
    /\ innerCalls' = innerCalls + 1
    /\ innerSeen' = innerSeen \cup {KindOf(NoneExc)}
    /\ nPc' = "own"
    /\ UNCHANGED <<nMaxRetries, outerAttempt, innerAttempt, outerLast, innerLast, nPending,
                   nOutcome, nLogins>>
    /\ UNCHANGED notNest

\* The folder request raises 404: obter_pasta returns None and
\* listar_arquivos raises FileNotFoundError towards its wrapper.
NestInnerNotFound(st) ==
    /\ nPc = "inner"
    /\ st = 404
    /\ innerCalls' = innerCalls + 1
    /\ innerSeen' = innerSeen \cup {st}
    /\ nPending' = OtherException(MsgFileNotFound, outerAttempt)
    /\ nPc' = "outerCatch"
    /\ UNCHANGED <<nMaxRetries, outerAttempt, innerAttempt, outerLast, innerLast, nOutcome,
                   nLogins>>
    /\ UNCHANGED notNest

\* The folder request raises e (not a 404): the wrapper of obter_pasta
\* handles it: next inner attempt, or e / its last_exception leaves
\* obter_pasta and listar_arquivos towards the outer wrapper.
NestInnerFails(e, loginOk) ==
    /\ nPc = "inner"
    /\ ~(e.cls = "ClientRequestException" /\ e.status = 404)
    /\ innerCalls' = innerCalls + 1
    /\ innerSeen' = innerSeen \cup {KindOf(e)}
    /\ nLogins' = nLogins + (IF RunsLogin(e) THEN 1 ELSE 0)
    /\ IF NestDecision(e, loginOk) = "continue"
       THEN IF innerAttempt + 1 \in LoopRange(nMaxRetries)
            THEN /\ nPc' = "inner"
                 /\ innerAttempt' = innerAttempt + 1
                 /\ innerLast' = LastAfter(innerLast, e)
                 /\ nPending' = nPending
            ELSE /\ nPc' = "outerCatch"
                 /\ innerAttempt' = innerAttempt
                 /\ innerLast' = LastAfter(innerLast, e)
                 /\ nPending' = RaiseValue(LastAfter(innerLast, e))
       ELSE /\ nPc' = "outerCatch"
            /\ innerAttempt' = innerAttempt
            /\ innerLast' = LastAfter(innerLast, e)
            /\ nPending' = e
    /\ UNCHANGED <<nMaxRetries, outerAttempt, outerLast, nOutcome>>
    /\ UNCHANGED notNest

\* The request of listar_arquivos itself returns: the call returns.
NestOwnOk ==
    /\ nPc = "own"
    /\ nPc' = "done"
    /\ nOutcome' = Returned(outerAttempt)
    /\ UNCHANGED <<nMaxRetries, outerAttempt, innerAttempt, outerLast, innerLast, nPending,
                   innerCalls, innerSeen, nLogins>>
    /\ UNCHANGED notNest

\* The request of listar_arquivos itself raises e.
NestOwnFails(e) ==
    /\ nPc = "own"
    /\ nPending' = e
    /\ nPc' = "outerCatch"
    /\ UNCHANGED <<nMaxRetries, outerAttempt, innerAttempt, outerLast, innerLast, nOutcome,
                   innerCalls, innerSeen, nLogins>>
    /\ UNCHANGED notNest

\* The outer wrapper handles the exception that left func: next outer
\* attempt (func, and with it the wrapper of obter_pasta, starts over), or
\* the call ends raising.
NestOuterCatch(loginOk) ==
    /\ nPc = "outerCatch"
    /\ nLogins' = nLogins + (IF RunsLogin(nPending) THEN 1 ELSE 0)
    /\ outerLast' = LastAfter(outerLast, nPending)
    /\ IF NestDecision(nPending, loginOk) = "continue"
       THEN IF outerAttempt + 1 \in LoopRange(nMaxRetries)
            THEN /\ nPc' = "inner"
                 /\ outerAttempt' = outerAttempt + 1
                 /\ nOutcome' = NoOutcome
            ELSE /\ nPc' = "done"
                 /\ outerAttempt' = outerAttempt
                 /\ nOutcome' = Raised(RaiseValue(LastAfter(outerLast, nPending)))
       ELSE /\ nPc' = "done"
            /\ outerAttempt' = outerAttempt
            /\ nOutcome' = Raised(nPending)
    /\ innerAttempt' = 0
    /\ innerLast' = NoneExc
    /\ nPending' = NoneExc
    /\ UNCHANGED <<nMaxRetries, innerCalls, innerSeen>>
    /\ UNCHANGED notNest

NextNested ==
    \/ \E u \in Usernames, p \in Passwords : NestLogin(u, p)
    \/ \E mr \in 1 .. MaxNestRetries : NestCall(mr)
    \/ NestInnerOk
    \/ \E st \in NestStatuses : NestInnerNotFound(st)
    \/ \E st \in NestStatuses, b \in BOOLEAN :
          NestInnerFails(ClientRequestException(st, innerAttempt), b)
    \/ \E m \in {MsgTimeout, MsgOther}, b \in BOOLEAN :
          NestInnerFails(OtherException(m, innerAttempt), b)
    \/ NestOwnOk
    \/ \E st \in NestStatuses : NestOwnFails(ClientRequestException(st, outerAttempt))
    \/ \E b \in BOOLEAN : NestOuterCatch(b)

SpecNested == Init /\ [][NextNested]_vars

\* ----------------------------------------------------------------- C19
\* C19: nesting does not multiply the retry budget: when the remote call of
\* the inner decorated operation keeps failing with a 503 or an unexpected
\* error, it is executed at most max_retries times during one top-level
\* call, and when it keeps failing with 401/403, login is run at most once.
C19_NestingKeepsBudget ==
    /\ (innerSeen \subseteq {503, 0}) => innerCalls <= nMaxRetries
    /\ (innerSeen \subseteq {401, 403}) => nLogins <= 1

\* =================================================================
\* Folders and files: obter_pasta, obter_arquivo, criar_pasta (SpecFolders)
\* A name is a sequence of characters; a path is a sequence of names
\* below the site root, <<>> being the root itself.
\* =================================================================
\* Largest max_retries of the wrapper in this part.
MaxFsRetries == 2

\* Names of the folders other clients add under the root.
SiblingNames == {<<"A">>, <<"B">>, <<"X", "A">>}

\* Values of nome_pasta handed to criar_pasta.
NomeInputs == {<<"A">>, <<"B">>, <<"A", "/", "B">>, <<"A", "/", "/", "B">>}

\* Names of the files other clients upload, and of the files asked for.
FileNames == {<<"f">>}
AskedFileNames == {<<"f">>, <<"g">>}

\* Folder paths handed to obter_pasta and, followed by a file name, to
\* obter_arquivo; and those handed to criar_pasta as pasta_pai.
AskedFolders == {<<>>} \cup {<<n>> : n \in SiblingNames}
ParentInputs == {<<>>, <<<<"B">>>>}

\* n in s for two str: s contains n as a contiguous run.
IsSubstring(n, s) ==
    \E i \in 1 .. (Len(s) - Len(n) + 1) : SubSeq(s, i, i + Len(n) - 1) = n

\* "/" in nome_pasta
HasSlash(s) == \E i \in 1 .. Len(s) : s[i] = "/"

\* nome_pasta.split("/"): the runs between the "/", empty ones included.
RECURSIVE SplitSlash(_)
SplitSlash(s) ==
    IF s = <<>> THEN << <<>> >>
    ELSE LET rest == SplitSlash(Tail(s))
         IN  IF Head(s) = "/"
             THEN << <<>> >> \o rest
             ELSE << <<Head(s)>> \o Head(rest) >> \o Tail(rest)

\* os.path.dirname / os.path.basename of a file path.
Dirname(p) == SubSeq(p, 1, Len(p) - 1)
Basename(p) == p[Len(p)]

\* pasta_pai.folders / folder.files as the server lists them.
Subfolders(t, parent) ==
    {q \in t : Len(q) = Len(parent) + 1 /\ SubSeq(q, 1, Len(parent)) = parent}
FilesIn(fs, folder) ==
    {q \in fs : Dirname(q) = folder}

\* The subfolders the generator of criar_pasta accepts for a name: those
\* whose name contains it.
Matches(t, parent, nome) ==
    {q \in Subfolders(t, parent) : IsSubstring(nome, Basename(q))}

\* Another client adds a folder under the root.
FsRemoteAddFolder(n) ==
    /\ fsPc = "idle"
    /\ <<n>> \notin tree
    /\ tree' = tree \cup {<<n>>}
    /\ prevCall' = NoCall
    /\ UNCHANGED <<files, fsPc, fsOp, fsPath, nome_pasta, fsMaxRetries, fsAttempt, fsLast,
                   path_parts, current_folder, created, fsOutcome>>
    /\ UNCHANGED notFs

\* Another client uploads a file to a folder.
FsRemoteAddFile(folder, n) ==
    /\ fsPc = "idle"
    /\ folder \in tree
    /\ folder \o <<n>> \notin files
    /\ files' = files \cup {folder \o <<n>>}
    /\ UNCHANGED <<tree, fsPc, fsOp, fsPath, nome_pasta, fsMaxRetries, fsAttempt, fsLast,
                   path_parts, current_folder, created, fsOutcome, prevCall>>
    /\ UNCHANGED notFs

\* obter_pasta(caminho_pasta): the folder, or None on the server's 404.
FsObterPasta(p, mr) ==
    /\ fsPc = "idle"
    /\ fsOp' = "obter_pasta"
    /\ fsPath' = p
    /\ fsMaxRetries' = mr
    /\ fsOutcome' = IF p \in tree THEN FsReturned(p) ELSE FsReturnedNone
    /\ fsPc' = "done"
    /\ UNCHANGED <<tree, files, nome_pasta, fsAttempt, fsLast, path_parts, current_folder,
                   created, prevCall>>
    /\ UNCHANGED notFs

\* A caller invokes obter_arquivo(caminho_arquivo).
FsObterArquivoCall(p, mr) ==
    /\ fsPc = "idle"
    /\ fsOp' = "obter_arquivo"
    /\ fsPath' = p
    /\ fsMaxRetries' = mr
    /\ fsPc' = "run"
    /\ UNCHANGED <<tree, files, nome_pasta, fsAttempt, fsLast, path_parts, current_folder,
                   created, fsOutcome, prevCall>>
    /\ UNCHANGED notFs

\* A caller invokes criar_pasta(pasta_pai, nome_pasta), pasta_pai a str.
FsCriarPastaCall(p, nome, mr) ==
    /\ fsPc = "idle"
    /\ fsOp' = "criar_pasta"
    /\ fsPath' = p
    /\ nome_pasta' = nome
    /\ fsMaxRetries' = mr
    /\ fsPc' = "run"
    /\ UNCHANGED <<tree, files, fsAttempt, fsLast, path_parts, current_folder, created,
                   fsOutcome, prevCall>>
    /\ UNCHANGED notFs

\* func raised e, which is no ClientRequestException: the wrapper keeps
\* it, sleeps and goes to the next attempt, or raises at exhaustion.
FsFuncRaises(e) ==
    /\ WrapperDecision(e) = "continue"
    /\ fsLast' = LastAfter(fsLast, e)
    /\ IF fsAttempt + 1 \in LoopRange(fsMaxRetries)
       THEN /\ fsAttempt' = fsAttempt + 1
            /\ fsPc' = "run"
            /\ fsOutcome' = fsOutcome
       ELSE /\ fsAttempt' = fsAttempt
            /\ fsPc' = "done"
            /\ fsOutcome' = FsRaised(RaiseValue(LastAfter(fsLast, e)))

\* One run of obter_arquivo: FileNotFoundError when the parent folder is
\* missing or lists no file, the File when one has the name, else None.
\* Nothing changes on the server during the call.
FsRunObterArquivo ==
    /\ fsPc = "run"
    /\ fsOp = "obter_arquivo"
    /\ IF Dirname(fsPath) \notin tree \/ FilesIn(files, Dirname(fsPath)) = {}
       THEN FsFuncRaises(OtherException(MsgFileNotFound, fsAttempt))
       ELSE /\ fsOutcome' = IF fsPath \in files THEN FsReturned(fsPath) ELSE FsReturnedNone
            /\ fsPc' = "done"
            /\ UNCHANGED <<fsAttempt, fsLast>>
    /\ UNCHANGED <<tree, files, fsOp, fsPath, nome_pasta, fsMaxRetries, path_parts,
                   current_folder, created, prevCall>>
    /\ UNCHANGED notFs

\* One run of criar_pasta up to the split: Exception when the parent is
\* missing, else the parts to walk: the split of a name holding "/", the
\* name itself otherwise.
FsRunCriarPasta ==
    /\ fsPc = "run"
    /\ fsOp = "criar_pasta"
    /\ IF fsPath \notin tree
       THEN /\ FsFuncRaises(OtherException(MsgOther, fsAttempt))
            /\ UNCHANGED <<path_parts, current_folder>>
       ELSE /\ path_parts' = IF HasSlash(nome_pasta) THEN SplitSlash(nome_pasta)
                             ELSE <<nome_pasta>>
            /\ current_folder' = fsPath
            /\ fsPc' = "parts"
            /\ UNCHANGED <<fsAttempt, fsLast, fsOutcome>>
    /\ UNCHANGED <<tree, files, fsOp, fsPath, nome_pasta, fsMaxRetries, created, prevCall>>
    /\ UNCHANGED notFs

\* criar_pasta(current_folder, part) for the next part: an empty part is
\* skipped; else the first listed subfolder the generator accepts is
\* returned (the server's listing order is not known: any accepted one),
\* or, none accepted, a folder named part is added.
FsCriarPart ==
    /\ fsPc = "parts"
    /\ path_parts # <<>>
    /\ path_parts' = Tail(path_parts)
    /\ LET part == Head(path_parts)
       IN  IF part = <<>>
           THEN UNCHANGED <<tree, current_folder, created>>
           ELSE IF Matches(tree, current_folder, part) # {}
                THEN /\ current_folder' \in Matches(tree, current_folder, part)
                     /\ UNCHANGED <<tree, created>>
                ELSE /\ tree' = tree \cup {current_folder \o <<part>>}
                     /\ created' = Append(created, current_folder \o <<part>>)
                     /\ current_folder' = current_folder \o <<part>>
    /\ UNCHANGED <<files, fsPc, fsOp, fsPath, nome_pasta, fsMaxRetries, fsAttempt, fsLast,
                   fsOutcome, prevCall>>
    /\ UNCHANGED notFs

\* criar_pasta returns the folder reached.
FsCriarReturn ==
    /\ fsPc = "parts"
    /\ path_parts = <<>>
    /\ fsOutcome' = FsReturned(current_folder)
    /\ fsPc' = "done"
    /\ UNCHANGED <<tree, files, fsOp, fsPath, nome_pasta, fsMaxRetries, fsAttempt, fsLast,
                   path_parts, current_folder, created, prevCall>>
    /\ UNCHANGED notFs

\* The caller has the outcome; the locals of the call are gone.
FsReturn ==
    /\ fsPc = "done"
    /\ prevCall' = IF fsOp = "criar_pasta"
                   THEN [pasta_pai |-> fsPath, nome_pasta |-> nome_pasta,
                         result |-> fsOutcome, created |-> created]
                   ELSE prevCall
    /\ fsPc' = "idle"
    /\ fsOp' = "none"
    /\ fsPath' = <<>>
    /\ nome_pasta' = <<>>
    /\ fsMaxRetries' = 0
    /\ fsAttempt' = 0
    /\ fsLast' = NoneExc
    /\ path_parts' = <<>>
    /\ current_folder' = <<>>
    /\ created' = <<>>
    /\ fsOutcome' = FsNoOutcome
    /\ UNCHANGED <<tree, files>>
    /\ UNCHANGED notFs

\* Resolving paths: obter_pasta and obter_arquivo.
NextResolve ==
    \/ \E n \in SiblingNames : FsRemoteAddFolder(n)
    \/ \E d \in AskedFolders, n \in FileNames : FsRemoteAddFile(d, n)
    \/ \E p \in AskedFolders, mr \in 1 .. MaxFsRetries : FsObterPasta(p, mr)
    \/ \E d \in AskedFolders, n \in AskedFileNames, mr \in 1 .. MaxFsRetries :
          FsObterArquivoCall(d \o <<n>>, mr)
    \/ FsRunObterArquivo
    \/ FsReturn

SpecResolve == Init /\ [][NextResolve]_vars

\* Creating folders: criar_pasta.
NextFolders ==
    \/ \E n \in SiblingNames : FsRemoteAddFolder(n)
    \/ \E p \in ParentInputs, nome \in NomeInputs, mr \in 1 .. MaxFsRetries :
          FsCriarPastaCall(p, nome, mr)
    \/ FsRunCriarPasta
    \/ FsCriarPart
    \/ FsCriarReturn
    \/ FsReturn

SpecFolders == Init /\ [][NextFolders]_vars

\* The folders on the server when the call in progress began.
TreeBefore == tree \ {created[i] : i \in 1 .. Len(created)}

\* A criar_pasta call has ended returning a folder.
CriarDone == fsPc = "done" /\ fsOp = "criar_pasta" /\ fsOutcome.kind = "returned"

\* ----------------------------------------------------------------- C12
\* C12: obter_pasta or obter_arquivo on a path that does not exist on the
\* server (a file path whose parent folder is missing or empty included)
\* returns None without raising and on its first attempt, on every call.
C12_MissingPathReturnsNone ==
    (/\ fsPc = "done"
     /\ \/ fsOp = "obter_pasta" /\ fsPath \notin tree
        \/ fsOp = "obter_arquivo" /\ fsPath \notin files)
    => (fsOutcome = FsReturnedNone /\ fsAttempt = 0)

\* ----------------------------------------------------------------- C20
\* C20: criar_pasta(parent, n) with a name n without "/" returns a folder
\* named exactly n: the subfolder of parent that had the name before the
\* call, nothing being created, or else the one folder it created.
C20_SingleNameReturnsThatName ==
    (CriarDone /\ ~HasSlash(nome_pasta))
    => /\ fsOutcome = FsReturned(fsPath \o <<nome_pasta>>)
       /\ created = IF fsPath \o <<nome_pasta>> \in TreeBefore
                    THEN <<>> ELSE <<fsPath \o <<nome_pasta>>>>

\* ----------------------------------------------------------------- C13
\* C13: criar_pasta(parent, "A/B") with neither folder there creates "A"
\* under parent, then "B" under "A", and returns that "B"; the same call
\* made again right afterwards creates nothing and returns the same "B".
C13_NestedCreateThenNoOp ==
    (CriarDone /\ nome_pasta = <<"A", "/", "B">>)
    => /\ (fsPath \o <<<<"A">>>> \notin TreeBefore)
          => /\ created = <<fsPath \o <<<<"A">>>>, fsPath \o <<<<"A">>, <<"B">>>>>>
             /\ fsOutcome = FsReturned(fsPath \o <<<<"A">>, <<"B">>>>)
       /\ (/\ prevCall.pasta_pai = fsPath
           /\ prevCall.nome_pasta = nome_pasta
           /\ prevCall.result.kind = "returned"
           /\ Len(prevCall.created) = 2)
          => /\ created = <<>>
             /\ fsOutcome = prevCall.result

====
